---- MODULE Spec2Model ----
(***************************************************************************)
(* ats-checker: the deterministic analysis pipeline (scoring, rules,       *)
(* suggestions), the two public entry points analyzeResume and             *)
(* analyzeResumeAsync, and the enhancement layer (LLMBudgetManager,        *)
(* LLMManager.callLLM, validateJsonSchema,                                 *)
(* adaptSuggestionEnhancementResponse).                                    *)
(*                                                                         *)
(* Numbers.  Scores and the composite are fixed-point with two decimals:   *)
(* the integer 10000 stands for 100.00.  Weights are given in hundredths   *)
(* (30 stands for 0.3), penalties in whole points, experience in           *)
(* hundredths of a year.  Only finite numbers are modelled.                *)
(*                                                                         *)
(* Text.  Parsed resumes and job descriptions are records of the fields    *)
(* the scorer, the rule engine and the suggestion engine read.  Message    *)
(* texts are short tags; a tag is the fixed prefix of the message the      *)
(* code builds.                                                            *)
(***************************************************************************)
EXTENDS Integers, Sequences, FiniteSets, TLC

\* an absent string
None == "none"

\* an optional value of any other type: <<>> when absent, <<v>> when present
Nothing == <<>>
Some(v) == <<v>>

Min(a, b) == IF a <= b THEN a ELSE b
Max(a, b) == IF a >= b THEN a ELSE b
Abs(a) == IF a < 0 THEN 0 - a ELSE a

\* a / b rounded to the nearest integer, halves away from zero (Number.toFixed)
RoundDiv(a, b) ==
    LET s == IF (a < 0) = (b < 0) THEN 1 ELSE 0 - 1
    IN  s * ((2 * Abs(a) + Abs(b)) \div (2 * Abs(b)))

RECURSIVE SeqSum(_)
SeqSum(s) == IF s = <<>> THEN 0 ELSE Head(s) + SeqSum(Tail(s))

RECURSIVE SelectSeqBy(_, _)
\* the subsequence of s whose elements are in the set keep
SelectSeqBy(s, keep) ==
    IF s = <<>> THEN <<>>
    ELSE IF Head(s) \in keep THEN <<Head(s)>> \o SelectSeqBy(Tail(s), keep)
         ELSE SelectSeqBy(Tail(s), keep)

Range(s) == { s[i] : i \in 1..Len(s) }

Count(s, x) == Cardinality({ i \in 1..Len(s) : s[i] = x })

(***************************************************************************)
(* JSON values: what a response content parses to.                         *)
(*   [t |-> "undefined"], [t |-> "null"], [t |-> "string", s |-> ...],     *)
(*   [t |-> "number", n |-> ...], [t |-> "boolean", b |-> ...],            *)
(*   [t |-> "array", elems |-> <<...>>], [t |-> "object", fields |-> f]    *)
(***************************************************************************)
Undefined == [ t |-> "undefined" ]
Null == [ t |-> "null" ]
Str(s) == [ t |-> "string", s |-> s ]
Num(n) == [ t |-> "number", n |-> n ]
Bool(b) == [ t |-> "boolean", b |-> b ]
Arr(elems) == [ t |-> "array", elems |-> elems ]
Obj(fields) == [ t |-> "object", fields |-> fields ]

\* the typeof operator
typeof(v) == IF v.t \in {"null", "array", "object"} THEN "object" ELSE v.t

\* the truthiness the conditions of the code test
Truthy(v) ==
    CASE v.t \in {"undefined", "null"} -> FALSE
      [] v.t = "string" -> v.s # ""
      [] v.t = "number" -> v.n # 0
      [] v.t = "boolean" -> v.b
      [] OTHER -> TRUE

\* key in obj, for the property names the schemas use
HasKey(v, key) == v.t = "object" /\ key \in DOMAIN v.fields

\* obj[key]
Get(v, key) == IF HasKey(v, key) THEN v.fields[key] ELSE Undefined

Strs(seq) == [ i \in 1..Len(seq) |-> Str(seq[i]) ]

(***************************************************************************)
(* utils/text.ts, utils/skills.ts, profiles                                *)
(***************************************************************************)
\* clamp without its bounds
clamp_unbounded(value, min, max) == value

clamp(value, min, max) == Min(Max(value, min), max)

\* the entries of defaultSkillAliases that the modelled skill names use
defaultSkillAliases ==
    [ a \in {"ts", "node", "reactjs"} |->
        CASE a = "ts" -> "typescript"
          [] a = "node" -> "javascript"
          [] a = "reactjs" -> "react" ]

normalizeSkill(skill) ==
    IF skill \in DOMAIN defaultSkillAliases THEN defaultSkillAliases[skill] ELSE skill

normalizeSkills(skills) == { normalizeSkill(s) : s \in skills }

softwareEngineerProfile ==
    [ mandatorySkills |-> {"javascript", "typescript", "react", "node"},
      optionalSkills  |-> {"graphql", "sql", "docker"},
      minExperience   |-> Some(3) ]

(***************************************************************************)
(* core/scoring/weights.ts                                                 *)
(***************************************************************************)
DEFAULT_WEIGHTS == [ skills |-> 30, experience |-> 30, keywords |-> 25, education |-> 15 ]

DEFAULT_KEYWORD_DENSITY == [ maxNum |-> 4, maxDen |-> 100, overusePenalty |-> 5 ]

DEFAULT_SECTION_PENALTIES ==
    [ missingSummary |-> 4, missingExperience |-> 10, missingSkills |-> 8, missingEducation |-> 6 ]

Components == {"skills", "experience", "keywords", "education"}

\* normalizeWeights falling back to equal shares when the weights sum to 0
normalizeWeights_equalShares(weights) ==
    LET total == weights.skills + weights.experience + weights.keywords + weights.education
    IN  IF total = 0
        THEN [ w |-> [ c \in Components |-> 25 ], den |-> 100 ]
        ELSE [ w |-> weights, den |-> total ]

\* The resolved weights are the rationals w[c] / den.
normalizeWeights(weights) ==
    LET total == weights.skills + weights.experience + weights.keywords + weights.education
    IN  IF total = 0
        THEN [ w |-> weights, den |-> 100 ]
        ELSE [ w |-> weights, den |-> total ]

OrDefault(partial, key, default) ==
    IF key \in DOMAIN partial THEN partial[key] ELSE default[key]

resolveConfig(config) ==
    [ weights |-> normalizeWeights(
          [ c \in Components |-> OrDefault(config.weights, c, DEFAULT_WEIGHTS) ]),
      profile |-> IF config.profile = Nothing THEN softwareEngineerProfile ELSE config.profile[1],
      rules |-> config.rules,
      keywordDensity |->
          IF config.keywordDensity = Nothing THEN DEFAULT_KEYWORD_DENSITY
          ELSE config.keywordDensity[1],
      sectionPenalties |->
          [ k \in DOMAIN DEFAULT_SECTION_PENALTIES |->
              OrDefault(config.sectionPenalties, k, DEFAULT_SECTION_PENALTIES) ] ]

(***************************************************************************)
(* core/scoring/scorer.ts                                                  *)
(***************************************************************************)
\* coverage * share * 100, in hundredths of a point
Share(matched, size, share) ==
    IF size = 0 THEN share * 100 ELSE (matched * share * 100) \div size

scoreSkills(resume, job, config) ==
    LET required == normalizeSkills(job.requiredSkills \cup config.profile.mandatorySkills)
        optional == normalizeSkills(job.preferredSkills \cup config.profile.optionalSkills)
        resumeSkills == normalizeSkills(resume.skills)
        matchedRequired == required \cap resumeSkills
        matchedOptional == optional \cap resumeSkills
    IN  [ score |-> clamp(Share(Cardinality(matchedRequired), Cardinality(required), 70)
                          + Share(Cardinality(matchedOptional), Cardinality(optional), 30),
                          0, 10000),
          missing |-> required \ resumeSkills ]

scoreExperience(resume, job, config) ==
    LET requiredYears ==
            IF job.minExperienceYears # Nothing THEN job.minExperienceYears[1]
            ELSE IF config.profile.minExperience # Nothing THEN config.profile.minExperience[1]
            ELSE 0
    IN  IF requiredYears = 0
        THEN [ score |-> 10000, missingYears |-> 0 ]
        ELSE LET \* yearCoverage in hundredths; a negative requirement gives a
                 \* quotient <= 0, which the clamp raises to 0
                 yearCoverage ==
                     IF requiredYears < 0 THEN 0
                     ELSE clamp(resume.totalExperienceYears \div requiredYears, 0, 200)
                 yearsComponent == clamp(yearCoverage, 0, 100) * 75
                 titleMatches == resume.jobTitles \cap job.roleKeywords
                 titleCoverage ==
                     IF job.roleKeywords = {} THEN 100
                     ELSE (Cardinality(titleMatches) * 100) \div Cardinality(job.roleKeywords)
                 roleComponent == clamp(titleCoverage, 0, 100) * 25
             IN  [ score |-> clamp(yearsComponent + roleComponent, 0, 10000),
                   missingYears |-> Max(requiredYears * 100 - resume.totalExperienceYears, 0) ]

\* the lower-case words that name a property of Object.prototype: the only
\* tokens for which a lookup in a fresh object literal finds a value
ObjectPrototypeKeys == {"constructor"}

\* utils/text.ts countFrequencies: counts[value] = (counts[value] ?? 0) + 1 on
\* an object literal.  For an inherited key the first lookup finds a
\* function, and function + 1 is a string, as is every later sum: the entry
\* is Nothing (not a number), any other entry is Some(count).
countFrequencies(values) ==
    [ v \in Range(values) |->
        IF v \in ObjectPrototypeKeys THEN Nothing ELSE Some(Count(values, v)) ]

scoreKeywords(resume, job, config) ==
    IF job.keywords = {}
    THEN [ score |-> 10000, matchedKeywords |-> {}, missingKeywords |-> {}, overusedKeywords |-> {} ]
    ELSE LET resumeTokenSet == Range(resume.tokens)
             matchedKeywords == job.keywords \cap resumeTokenSet
             missingKeywords == job.keywords \ resumeTokenSet
             frequencies == countFrequencies(resume.tokens)
             totalTokens == IF Len(resume.tokens) = 0 THEN 1 ELSE Len(resume.tokens)
             \* density > max is false when the frequency is not a number
             overusedKeywords ==
                 { k \in matchedKeywords :
                     /\ frequencies[k] # Nothing
                     /\ frequencies[k][1] * config.keywordDensity.maxDen
                          > config.keywordDensity.maxNum * totalTokens }
         IN  [ score |-> clamp((Cardinality(matchedKeywords) * 10000) \div Cardinality(job.keywords),
                               0, 10000),
               matchedKeywords |-> matchedKeywords,
               missingKeywords |-> missingKeywords,
               overusedKeywords |-> overusedKeywords ]

scoreEducation(resume, job) ==
    IF job.educationRequirements = {} THEN 10000
    ELSE LET matched == job.educationRequirements \cap resume.educationMentions
         IN  IF matched = {} THEN 0
             ELSE clamp((Cardinality(matched) * 10000) \div Cardinality(job.educationRequirements),
                        0, 10000)

calculateScore(resume, job, config) ==
    LET skillsResult == scoreSkills(resume, job, config)
        experienceResult == scoreExperience(resume, job, config)
        keywordResult == scoreKeywords(resume, job, config)
        educationScore == scoreEducation(resume, job)
        breakdown == [ skills |-> skillsResult.score,
                       experience |-> experienceResult.score,
                       keywords |-> keywordResult.score,
                       education |-> educationScore ]
        w == config.weights.w
        weightedNum == breakdown.skills * w.skills + breakdown.experience * w.experience
                       + breakdown.keywords * w.keywords + breakdown.education * w.education
    IN  [ score |-> clamp(RoundDiv(weightedNum, config.weights.den), 0, 10000),
          breakdown |-> breakdown,
          matchedKeywords |-> keywordResult.matchedKeywords,
          missingKeywords |-> keywordResult.missingKeywords,
          overusedKeywords |-> keywordResult.overusedKeywords,
          missingSkills |-> skillsResult.missing,
          missingExperienceYears |-> experienceResult.missingYears,
          educationScore |-> educationScore ]

(***************************************************************************)
(* core/rules/rule.engine.ts                                               *)
(***************************************************************************)
requiredSections == <<"summary", "experience", "skills", "education">>

penaltyBySection(config) ==
    [ s \in Range(requiredSections) |->
        CASE s = "summary" -> config.sectionPenalties.missingSummary
          [] s = "experience" -> config.sectionPenalties.missingExperience
          [] s = "skills" -> config.sectionPenalties.missingSkills
          [] s = "education" -> config.sectionPenalties.missingEducation ]

\* the required sections the resume lacks, in the order the loops visit them
MissingSections(resume) ==
    SelectSeqBy(requiredSections, Range(requiredSections) \ resume.detectedSections)

\* applySectionPenalties counting and reporting only the sections whose
\* penalty is positive
applySectionPenalties_positiveOnly(resume, config) ==
    LET missing == SelectSeq(MissingSections(resume),
                             LAMBDA section : penaltyBySection(config)[section] > 0)
    IN  [ totalPenalty |-> SeqSum([ i \in 1..Len(missing) |-> penaltyBySection(config)[missing[i]] ]),
          warnings |-> [ i \in 1..Len(missing) |-> <<"section missing", missing[i]>> ] ]

applySectionPenalties(resume, config) ==
    LET missing == MissingSections(resume)
    IN  [ totalPenalty |-> SeqSum([ i \in 1..Len(missing) |-> penaltyBySection(config)[missing[i]] ]),
          warnings |-> [ i \in 1..Len(missing) |-> <<"section missing", missing[i]>> ] ]

applyDefaultRules(resume, overusedKeywords, config) ==
    LET sectionResult == applySectionPenalties(resume, config)
        table == resume.tableLike
        stuffing == overusedKeywords # {}
        stuffingPenalty == Cardinality(overusedKeywords) * config.keywordDensity.overusePenalty
        few == Cardinality(resume.detectedSections) < 3
    IN  [ totalPenalty |-> sectionResult.totalPenalty
                           + (IF table THEN 8 ELSE 0)
                           + (IF stuffing THEN stuffingPenalty ELSE 0)
                           + (IF few THEN 5 ELSE 0),
          warnings |-> sectionResult.warnings
                       \o (IF table THEN << <<"table-like formatting", "">> >> ELSE <<>>)
                       \o (IF stuffing THEN << <<"keyword stuffing", "">> >> ELSE <<>>)
                       \o (IF few THEN << <<"few sections", "">> >> ELSE <<>>) ]

RECURSIVE UserRules(_, _)
\* the loop over config.rules: a rule is [penalty, warning, condition,
\* throws], where condition is the value its predicate returns on this
\* context and throws says that it raises an error instead
UserRules(rules, acc) ==
    IF rules = <<>> THEN acc
    ELSE LET rule == Head(rules)
         IN  UserRules(Tail(rules),
                 IF rule.condition
                 THEN [ totalPenalty |-> acc.totalPenalty + rule.penalty,
                        warnings |-> IF rule.warning \notin {None, ""}
                                     THEN Append(acc.warnings, <<"rule", rule.warning>>)
                                     ELSE acc.warnings ]
                 ELSE acc)

\* line 87: rule.condition(context) raises an error, which nothing between
\* it and the caller of the entry point catches
Throws(config) == \E k \in DOMAIN config.rules : config.rules[k].throws

\* evaluate with the user rules run before the built-in rules
evaluate_rulesFirst(resume, overusedKeywords, config) ==
    LET user == UserRules(config.rules, [ totalPenalty |-> 0, warnings |-> <<>> ])
        defaultResult == applyDefaultRules(resume, overusedKeywords, config)
    IN  [ totalPenalty |-> user.totalPenalty + defaultResult.totalPenalty,
          warnings |-> user.warnings \o defaultResult.warnings ]

evaluate(resume, overusedKeywords, config) ==
    UserRules(config.rules, applyDefaultRules(resume, overusedKeywords, config))

(***************************************************************************)
(* core/parser/resume.parser.ts (the warnings of parseResume)              *)
(***************************************************************************)
resumeWarnings(resume) ==
    LET missing == MissingSections(resume)
    IN  [ i \in 1..Len(missing) |-> <<"section not detected", missing[i]>> ]

(***************************************************************************)
(* core/suggestions/suggestion.engine.ts                                   *)
(***************************************************************************)
generate(resume, job, score, ruleWarnings) ==
    [ suggestions |->
          (IF score.missingSkills # {} THEN <<"Highlight these required skills">> ELSE <<>>)
          \o (IF score.missingKeywords # {} THEN <<"Incorporate job-specific keywords">> ELSE <<>>)
          \o (IF score.overusedKeywords # {} THEN <<"Avoid keyword stuffing">> ELSE <<>>)
          \o (IF score.missingExperienceYears > 0 THEN <<"Clarify years of experience">> ELSE <<>>)
          \o (IF job.educationRequirements # {} /\ score.educationScore = 0
              THEN <<"State your education credentials">> ELSE <<>>)
          \o (IF resume.actionVerbs < 3 THEN <<"Strengthen bullet points">> ELSE <<>>),
      warnings |-> ruleWarnings \o resumeWarnings(resume) ]

(***************************************************************************)
(* utils/dates.ts and parseResume: the experience of a resume.  A resume    *)
(* whose experience ends in an open range ("Jan 2020 - Present") carries   *)
(* openSince, the number of months from the start of the range to the      *)
(* month in which the model starts, and closedMonths, the months of its    *)
(* closed ranges; its totalExperienceYears is computed when it is parsed.  *)
(***************************************************************************)
\* monthsBetween(start, end) for a start openSince months before month 0 and
\* the end new Date() in month currentMonth
monthsBetween(openSince, currentMonth) == currentMonth + openSince + 1

\* sumExperienceYears: Number((months / 12).toFixed(2)), in hundredths
sumExperienceYears(months) == RoundDiv(months * 100, 12)

\* parseResume at the time currentMonth
parseResume(resume, currentMonth) ==
    IF "openSince" \in DOMAIN resume
    THEN LET durationInMonths == monthsBetween(resume.openSince, currentMonth)
         IN  [ resume EXCEPT !.totalExperienceYears =
                 sumExperienceYears(resume.closedMonths +
                                    (IF durationInMonths > 0 THEN durationInMonths ELSE 0)) ]
    ELSE resume

\* the input of an entry point with its resume parsed at currentMonth
Parsed(in, currentMonth) == [ in EXCEPT !.resume = parseResume(@, currentMonth) ]

(***************************************************************************)
(* index.ts: the deterministic first pass shared by analyzeResume and      *)
(* analyzeResumeAsync                                                      *)
(***************************************************************************)
FirstPass(in) ==
    LET resolvedConfig == resolveConfig(in.config)
        scoring == calculateScore(in.resume, in.job, resolvedConfig)
        ruleResult == evaluate(in.resume, scoring.overusedKeywords, resolvedConfig)
        suggestionResult == generate(in.resume, in.job, scoring, ruleResult.warnings)
    IN  [ scoring |-> scoring,
          totalPenalty |-> ruleResult.totalPenalty,
          suggestions |-> suggestionResult.suggestions,
          warnings |-> suggestionResult.warnings ]

\* Assemble with the penalties dropped once an enhancement succeeded
Assemble_rescored(fp, enhance, llmResult) ==
    [ score |-> IF enhance /\ llmResult.success THEN fp.scoring.score
                ELSE clamp(fp.scoring.score - fp.totalPenalty * 100, 0, 10000),
      breakdown |-> fp.scoring.breakdown,
      matchedKeywords |-> fp.scoring.matchedKeywords,
      missingKeywords |-> fp.scoring.missingKeywords,
      overusedKeywords |-> fp.scoring.overusedKeywords,
      suggestions |-> IF enhance /\ llmResult.success /\ llmResult.enhancedSuggestions # Nothing
                      THEN llmResult.enhancedSuggestions[1] ELSE Strs(fp.suggestions),
      warnings |-> fp.warnings \o (IF enhance THEN llmResult.warnings ELSE <<>>) ]

\* the end of both entry points: substitution, final score, returned object.
\* enhance says whether the enhancement branch was taken, llmResult is what
\* it produced.
Assemble(fp, enhance, llmResult) ==
    LET suggestions ==
            IF enhance /\ llmResult.success /\ llmResult.enhancedSuggestions # Nothing
            THEN llmResult.enhancedSuggestions[1] ELSE Strs(fp.suggestions)
        llmWarnings == IF enhance THEN llmResult.warnings ELSE <<>>
    IN
    [ score |-> clamp(fp.scoring.score - fp.totalPenalty * 100, 0, 10000),
      breakdown |-> fp.scoring.breakdown,
      matchedKeywords |-> fp.scoring.matchedKeywords,
      missingKeywords |-> fp.scoring.missingKeywords,
      overusedKeywords |-> fp.scoring.overusedKeywords,
      suggestions |-> suggestions,
      warnings |-> fp.warnings \o llmWarnings ]

(***************************************************************************)
(* llm/llm.schemas.ts, llm/validation.ts                                   *)
(* A schema is a record with the fields type, properties and required, the *)
(* last two optional; properties is a function from property names to      *)
(* [type, items], items being the declared item type or None.              *)
(***************************************************************************)
suggestionEnhancementSchema ==
    [ type |-> "object",
      properties |-> [ k \in {"suggestions"} |-> [ type |-> "array", items |-> "object" ] ],
      required |-> {"suggestions"} ]

ItemTypeOk(item, itemType) ==
    /\ ~(itemType = "string" /\ typeof(item) # "string")
    /\ ~(itemType = "number" /\ typeof(item) # "number")
    /\ ~(itemType = "object" /\ (typeof(item) # "object" \/ item.t = "null"))

PropertyOk(value, propSchema) ==
    CASE propSchema.type = "string" -> typeof(value) = "string"
      [] propSchema.type = "number" -> typeof(value) = "number"
      [] propSchema.type = "boolean" -> typeof(value) = "boolean"
      [] propSchema.type = "array" ->
             /\ value.t = "array"
             /\ propSchema.items # None =>
                    \A i \in 1..Len(value.elems) : ItemTypeOk(value.elems[i], propSchema.items)
      [] propSchema.type = "object" -> typeof(value) = "object" /\ value.t # "null"
      [] OTHER -> TRUE

validateJsonSchema(data, schema) ==
    IF schema.type # "object" \/ typeof(data) # "object" \/ data.t = "null" THEN FALSE
    ELSE /\ "required" \in DOMAIN schema => \A r \in schema.required : HasKey(data, r)
         /\ "properties" \in DOMAIN schema =>
                \A key \in DOMAIN schema.properties :
                    \/ Get(data, key).t = "undefined"
                    \/ schema.properties[key].type = None
                    \/ PropertyOk(Get(data, key), schema.properties[key])

(***************************************************************************)
(* llm/llm.adapters.ts                                                     *)
(***************************************************************************)
RECURSIVE AdaptItems(_)
AdaptItems(items) ==
    IF items = <<>> THEN <<>>
    ELSE LET item == Head(items)
             original == Get(item, "original")
             enhanced == Get(item, "enhanced")
             actionable == IF Get(item, "actionable").t = "boolean"
                           THEN Get(item, "actionable") ELSE Undefined
         IN  IF typeof(item) # "object" \/ item.t = "null" THEN AdaptItems(Tail(items))
             ELSE IF Truthy(original) /\ Truthy(enhanced)
                  THEN << [ original |-> original, enhanced |-> enhanced,
                            actionable |-> actionable ] >> \o AdaptItems(Tail(items))
                  ELSE AdaptItems(Tail(items))

\* adaptSuggestionEnhancementResponse keeping the first adapted entry only
adaptSuggestionEnhancementResponse_firstOnly(data) ==
    IF ~Truthy(data) \/ typeof(data) # "object" THEN <<>>
    ELSE IF Get(data, "suggestions").t # "array" THEN <<>>
         ELSE LET all == AdaptItems(Get(data, "suggestions").elems)
              IN  IF all = <<>> THEN <<>> ELSE <<Head(all)>>

adaptSuggestionEnhancementResponse(data) ==
    IF ~Truthy(data) \/ typeof(data) # "object" THEN <<>>
    ELSE IF Get(data, "suggestions").t # "array" THEN <<>>
         ELSE AdaptItems(Get(data, "suggestions").elems)

RECURSIVE ActionableEnhanced(_)
\* enhanced.filter((e) => e.actionable !== false).map((e) => e.enhanced)
ActionableEnhanced(enhanced) ==
    IF enhanced = <<>> THEN <<>>
    ELSE IF Head(enhanced).actionable = Bool(FALSE) THEN ActionableEnhanced(Tail(enhanced))
         ELSE <<Head(enhanced).enhanced>> \o ActionableEnhanced(Tail(enhanced))

(***************************************************************************)
(* llm/llm.budget.ts                                                       *)
(***************************************************************************)
\* assertCanCall admitting one call more than maxCalls
assertCanCall_offByOne(callCount, totalTokensUsed, limits, requestedTokens) ==
    IF callCount > limits.maxCalls THEN "LLM call limit exceeded"
    ELSE IF requestedTokens > limits.maxTokensPerCall THEN "exceeds per-call limit"
    ELSE IF totalTokensUsed + requestedTokens > limits.maxTotalTokens
         THEN "Total token budget exceeded"
    ELSE "ok"

\* "ok", or the error assertCanCall throws
assertCanCall(callCount, totalTokensUsed, limits, requestedTokens) ==
    IF callCount >= limits.maxCalls THEN "LLM call limit exceeded"
    ELSE IF requestedTokens > limits.maxTokensPerCall THEN "exceeds per-call limit"
    ELSE IF totalTokensUsed + requestedTokens > limits.maxTotalTokens
         THEN "Total token budget exceeded"
    ELSE "ok"

\* recordUsage counting the tokens but not the call
recordUsage_tokensOnly(budget, tokensUsed) ==
    [ callCount |-> budget.callCount,
      totalTokensUsed |-> budget.totalTokensUsed + tokensUsed ]

recordUsage(budget, tokensUsed) ==
    [ callCount |-> budget.callCount + 1,
      totalTokensUsed |-> budget.totalTokensUsed + tokensUsed ]

(***************************************************************************)
(* llm/llm.manager.ts: the private helpers                                 *)
(***************************************************************************)
CeilDiv(a, b) == (a + b - 1) \div b

estimateTokens(systemLen, userLen, requestedTokens) ==
    IF requestedTokens # Nothing /\ requestedTokens[1] # 0 THEN requestedTokens[1]
    ELSE LET estimatedInputTokens == CeilDiv(systemLen + userLen, 4)
         IN  estimatedInputTokens + CeilDiv(estimatedInputTokens, 2)

isValidJsonSchema(schema) ==
    /\ schema.type = "object"
    /\ ("properties" \in DOMAIN schema \/ "required" \in DOMAIN schema)

(***************************************************************************)
(* llm/llm.manager.ts: callLLM, one operator per stretch of code that runs *)
(* without suspending.  m is the manager ([limits, timeoutMs, budget,      *)
(* warnings]), c the state of one invocation:                              *)
(*   pc     "idle" | "race" (awaiting the race of line 104) | "grace"      *)
(*          (awaiting the drain race after a timeout) | "returned" |       *)
(*          "threw" (the promise of callLLM rejected)                      *)
(*   client "none" | "pending" | "resolved" | "rejected"                   *)
(*   timer  "none" | "armed" | "fired" | "cleared"                         *)
(*   response  the response that won the race of line 104, if any          *)
(*   listener  the onUnhandled listener of lines 45-48: "off" | "on" |     *)
(*          "removing" (its removal is scheduled 100 ms ahead)             *)
(***************************************************************************)
DefaultTimeoutMs == 30000

DefaultMaxTokens == 2000

LLMManager(config) ==
    [ limits |-> config.limits,
      timeoutMs |-> IF config.timeoutMs = Nothing THEN DefaultTimeoutMs ELSE config.timeoutMs[1],
      budget |-> [ callCount |-> 0, totalTokensUsed |-> 0 ],
      warnings |-> <<>> ]

NoResult ==
    [ success |-> FALSE, fallback |-> FALSE, error |-> <<>>, data |-> Undefined,
      tokensUsed |-> Nothing ]

Failure(error) ==
    [ success |-> FALSE, fallback |-> TRUE, error |-> error, data |-> Undefined,
      tokensUsed |-> Nothing ]

Success(data, tokensUsed) ==
    [ success |-> TRUE, fallback |-> FALSE, error |-> <<>>, data |-> data,
      tokensUsed |-> Some(tokensUsed) ]

IdleCall ==
    [ pc |-> "idle", client |-> "none", timer |-> "none", estimatedTokens |-> 0,
      schema |-> [ type |-> "undefined" ], response |-> Nothing, ret |-> NoResult,
      listener |-> "off" ]

\* (e as Error).message: a TypeError when the thrown value is null or undefined
HasMessage(reason) == reason \notin {"undefined", "null"}

\* the catch block of lines 182-200, entered with the thrown value reason
\* while the client promise is absent or already settled
CatchSettled(m, c, reason) ==
    IF ~HasMessage(reason)
    THEN [ mgr |-> m, call |-> [ c EXCEPT !.pc = "threw", !.listener = "on" ] ]
    ELSE [ mgr |-> [ m EXCEPT !.warnings = Append(@, <<"LLM call failed", reason>>) ],
           call |-> [ c EXCEPT !.pc = "returned", !.listener = "off",
                               !.ret = Failure(<<"LLM call failed", reason>>) ] ]

\* lines 43-104: up to the first await.  behaviour is what createCompletion
\* does when invoked: "promise" (returns a pending promise) or the value it
\* throws synchronously.
callLLM(m, systemLen, userLen, schema, options, behaviour) ==
    LET estimatedTokens == estimateTokens(systemLen, userLen, options.requestedTokens)
        check == assertCanCall(m.budget.callCount, m.budget.totalTokensUsed,
                               m.limits, estimatedTokens)
        c == [ IdleCall EXCEPT !.estimatedTokens = estimatedTokens, !.schema = schema ]
        max_tokens == IF options.requestedTokens # Nothing /\ options.requestedTokens[1] # 0
                      THEN options.requestedTokens[1] ELSE DefaultMaxTokens
    IN  IF check # "ok"
        THEN [ mgr |-> [ m EXCEPT !.warnings = Append(@, <<"LLM budget exhausted", check>>) ],
               call |-> [ c EXCEPT !.pc = "returned", !.listener = "removing",
                                   !.ret = Failure(<<"LLM budget exhausted", check>>) ],
               request |-> Nothing ]
        ELSE IF ~isValidJsonSchema(schema)
        THEN [ mgr |-> [ m EXCEPT !.warnings = Append(@, <<"Invalid JSON schema provided", "">>) ],
               call |-> [ c EXCEPT !.pc = "returned", !.listener = "removing",
                                   !.ret = Failure(<<"Invalid JSON schema provided", "">>) ],
               request |-> Nothing ]
        ELSE IF behaviour = "promise"
        THEN [ mgr |-> m,
               call |-> [ c EXCEPT !.pc = "race", !.client = "pending", !.timer = "armed",
                                   !.listener = "on" ],
               request |-> Some(max_tokens) ]
        ELSE [ mgr |-> CatchSettled(m, c, behaviour).mgr,
               call |-> CatchSettled(m, c, behaviour).call,
               request |-> Some(max_tokens) ]

\* JSON.parse on the response texts the model uses; Nothing is a SyntaxError
GoodItem(enhanced, actionable) ==
    Obj([ k \in {"original", "enhanced", "actionable"} |->
            CASE k = "original" -> Str("Highlight these required skills")
              [] k = "enhanced" -> enhanced
              [] k = "actionable" -> actionable ])

Payload(elems) == Obj([ k \in {"suggestions"} |-> Arr(elems) ])

JSONTexts ==
    [ text \in {"null", "42", "[]", "{wrong_field}", "{suggestions:[E1]}"} |->
        CASE text = "null" -> Null
          [] text = "42" -> Num(42)
          [] text = "[]" -> Arr(<<>>)
          [] text = "{wrong_field}" -> Obj([ k \in {"wrong_field"} |-> Str("data") ])
          [] text = "{suggestions:[E1]}" -> Payload(<< GoodItem(Str("E1"), Bool(TRUE)) >>) ]

JSONparse(text) == IF text \in DOMAIN JSONTexts THEN Some(JSONTexts[text]) ELSE Nothing

\* lines 109-181: the race was won by the client resolving with response
OnResponse(m, c, response) ==
    IF ~Truthy(response.content)
    THEN [ mgr |-> m,
           call |-> [ c EXCEPT !.pc = "returned", !.listener = "off",
                               !.ret = Failure(<<"Empty response from LLM", "">>) ] ]
    ELSE LET parsed == IF typeof(response.content) = "string"
                       THEN JSONparse(response.content.s)
                       ELSE Some(response.content)
         IN  IF parsed = Nothing
             THEN [ mgr |-> [ m EXCEPT !.warnings = Append(@, <<"Invalid JSON in LLM response", "">>) ],
                    call |-> [ c EXCEPT !.pc = "returned", !.listener = "off",
                                        !.ret = Failure(<<"Invalid JSON in LLM response", "">>) ] ]
             ELSE IF ~validateJsonSchema(parsed[1], c.schema)
             THEN [ mgr |-> [ m EXCEPT !.warnings =
                                Append(@, <<"LLM response does not match schema", "">>) ],
                    call |-> [ c EXCEPT !.pc = "returned", !.listener = "off",
                                        !.ret = Failure(<<"LLM response does not match schema", "">>) ] ]
             ELSE LET tokensUsed ==
                          IF response.total_tokens # Nothing /\ response.total_tokens[1] # 0
                          THEN response.total_tokens[1] ELSE c.estimatedTokens
                  IN  [ mgr |-> [ m EXCEPT !.budget = recordUsage(@, tokensUsed) ],
                        call |-> [ c EXCEPT !.pc = "returned", !.listener = "off",
                                            !.ret = Success(parsed[1], tokensUsed) ] ]

\* lines 96-104 and 182-192: the timer fired first; the catch block records
\* the failure and starts the drain race
OnTimeout(m, c) ==
    [ mgr |-> [ m EXCEPT !.warnings = Append(@, <<"LLM call failed", "LLM call timeout">>) ],
      call |-> [ c EXCEPT !.pc = "grace", !.timer = "fired" ] ]

\* lines 192-199: the drain race ends (late settlement or grace period)
OnDrained(c) ==
    [ c EXCEPT !.pc = "returned", !.listener = "off",
               !.ret = Failure(<<"LLM call failed", "LLM call timeout">>) ]

\* lines 45-47: onUnhandled, run for every listener registered on the process
\* when an unhandledRejection event is emitted; heard is the number of such
\* listeners that belong to invocations on the manager m
onUnhandled(m, heard, reason) ==
    [ m EXCEPT !.warnings =
        @ \o [ k \in 1..heard |-> <<"Unhandled rejection during LLM call", reason>> ] ]

(***************************************************************************)
(* llm/llm.prompts.ts: the lengths of the two prompts of the suggestion    *)
(* enhancement (the texts of the suggestions themselves are tags and are   *)
(* counted as their "- " prefix and line break only)                       *)
(***************************************************************************)
suggestionEnhancementSystemLen == 164

suggestionEnhancementUserLen(suggestions) == 420 + 3 * Len(suggestions)

(***************************************************************************)
(* index.ts: enhanceSuggestionsWithLLM (synchronous entry point)           *)
(***************************************************************************)
\* enhanceSuggestionsWithLLM giving its notice whatever the features enabled
enhanceSuggestionsWithLLM_alwaysNotice(config, suggestions) ==
    [ success |-> FALSE, enhancedSuggestions |-> Nothing,
      warnings |-> << <<"LLM suggestion enhancement skipped", "">> >> ]

enhanceSuggestionsWithLLM(config, suggestions) ==
    IF ~config.enable.suggestions
    THEN [ success |-> FALSE, enhancedSuggestions |-> Nothing, warnings |-> <<>> ]
    ELSE [ success |-> FALSE, enhancedSuggestions |-> Nothing,
           warnings |-> << <<"LLM suggestion enhancement skipped", "">> >> ]

\* the enhancement attempted for any deterministic list, the empty one too
EnhancementRequested_anyList(llm, suggestions) == llm # Nothing

\* index.ts lines 64 and 157: input.llm && suggestions.length > 0
EnhancementRequested(llm, suggestions) == llm # Nothing /\ suggestions # <<>>

\* index.ts: analyzeResume
analyzeResumeResult(in) ==
    LET firstPass == FirstPass(in)
        enhance == EnhancementRequested(in.llm, firstPass.suggestions)
        llmResult == enhanceSuggestionsWithLLM(in.llm[1], firstPass.suggestions)
    IN  Assemble(firstPass, enhance, llmResult)

(***************************************************************************)
(* index.ts: enhanceSuggestionsWithLLMAsync, the part after the await of   *)
(* callLLM (lines 205-230); c is the finished invocation, m the manager    *)
(***************************************************************************)
\* lines 227-230: the catch block around the whole body
enhanceCatch ==
    [ success |-> FALSE, enhancedSuggestions |-> Nothing,
      warnings |-> << <<"Unexpected error in LLM enhancement", "">> >> ]

\* the promise of enhanceSuggestionsWithLLMAsync rejects
EnhanceRejected == [ rejected |-> TRUE ]

\* enhanceSuggestionsWithLLMAsync without the test for an empty adapted list
enhance_noEmptyCheck(m, c) ==
    IF c.pc = "threw"
    THEN enhanceCatch
    ELSE IF ~c.ret.success \/ ~Truthy(c.ret.data)
    THEN [ success |-> FALSE, enhancedSuggestions |-> Nothing,
           warnings |-> (IF c.ret.error # <<>>
                         THEN << <<"LLM suggestion enhancement failed", c.ret.error[1]>> >>
                         ELSE <<>>) \o m.warnings ]
    ELSE [ success |-> TRUE,
           enhancedSuggestions |->
               Some(ActionableEnhanced(adaptSuggestionEnhancementResponse(c.ret.data))),
           warnings |-> m.warnings ]

\* enhanceSuggestionsWithLLMAsync reporting a failed call with the warnings
\* of the manager only
enhance_managerWarningsOnly(m, c) ==
    IF c.pc = "threw"
    THEN enhanceCatch
    ELSE IF ~c.ret.success \/ ~Truthy(c.ret.data)
    THEN [ success |-> FALSE, enhancedSuggestions |-> Nothing, warnings |-> m.warnings ]
    ELSE LET enhancedSuggestions ==
                 ActionableEnhanced(adaptSuggestionEnhancementResponse(c.ret.data))
         IN  IF Len(enhancedSuggestions) = 0
             THEN [ success |-> FALSE, enhancedSuggestions |-> Nothing,
                    warnings |-> << <<"LLM returned no actionable enhanced suggestions", "">> >>
                                 \o m.warnings ]
             ELSE [ success |-> TRUE, enhancedSuggestions |-> Some(enhancedSuggestions),
                    warnings |-> m.warnings ]

\* enhanceSuggestionsWithLLMAsync without its try/catch
enhance_noCatch(m, c) ==
    IF c.pc = "threw"
    THEN EnhanceRejected
    ELSE IF ~c.ret.success \/ ~Truthy(c.ret.data)
    THEN [ success |-> FALSE, enhancedSuggestions |-> Nothing,
           warnings |-> (IF c.ret.error # <<>>
                         THEN << <<"LLM suggestion enhancement failed", c.ret.error[1]>> >>
                         ELSE <<>>) \o m.warnings ]
    ELSE LET enhancedSuggestions ==
                 ActionableEnhanced(adaptSuggestionEnhancementResponse(c.ret.data))
         IN  IF Len(enhancedSuggestions) = 0
             THEN [ success |-> FALSE, enhancedSuggestions |-> Nothing,
                    warnings |-> << <<"LLM returned no actionable enhanced suggestions", "">> >>
                                 \o m.warnings ]
             ELSE [ success |-> TRUE, enhancedSuggestions |-> Some(enhancedSuggestions),
                    warnings |-> m.warnings ]

enhanceSuggestionsWithLLMAsync(m, c) ==
    IF c.pc = "threw"
    THEN enhanceCatch
    ELSE IF ~c.ret.success \/ ~Truthy(c.ret.data)
    THEN [ success |-> FALSE, enhancedSuggestions |-> Nothing,
           warnings |-> (IF c.ret.error # <<>>
                         THEN << <<"LLM suggestion enhancement failed", c.ret.error[1]>> >>
                         ELSE <<>>) \o m.warnings ]
    ELSE LET enhanced == adaptSuggestionEnhancementResponse(c.ret.data)
             enhancedSuggestions == ActionableEnhanced(enhanced)
         IN  IF Len(enhancedSuggestions) = 0
             THEN [ success |-> FALSE, enhancedSuggestions |-> Nothing,
                    warnings |-> << <<"LLM returned no actionable enhanced suggestions", "">> >>
                                 \o m.warnings ]
             ELSE [ success |-> TRUE, enhancedSuggestions |-> Some(enhancedSuggestions),
                    warnings |-> m.warnings ]

(***************************************************************************)
(* State                                                                   *)
(***************************************************************************)
VARIABLES
    input,       \* the argument of the analysis: [resume, job, config, llm]
    apc,         \* analyzeResumeAsync: "start" | "enhancing" | "done" | "rejected"
    first,       \* the first pass of analyzeResumeAsync, once computed
    result,      \* what analyzeResumeAsync resolved with
    syncResult,  \* what analyzeResume returned
    spc,         \* analyzeResume: "start" | "returned" | "threw"
    now,         \* the clock of the host (new Date()), in months from the
                 \* month in which the model starts
    syncAgain,   \* what a second call of analyzeResume returned
    resumeText,  \* the lines of a resume text handed to the parser
    parsedResume, \* what the parser made of resumeText: sections, entries, titles
    mgr,         \* the LLMManager
    calls,       \* the callLLM invocations on mgr, by invocation number
    sent,        \* the max_tokens of the requests createCompletion received
    rejections   \* the promise rejections nothing handles, by origin: 0 for a
                 \* promise foreign to the invocations modelled, i for the
                 \* promise clientPromise.finally(...) of invocation i (line
                 \* 100); each "none" | "pending" (rejected, the process has
                 \* not emitted unhandledRejection yet) | "heard" (emitted to
                 \* the listeners registered) | "escaped" (emitted with none
                 \* of the listeners of callLLM registered)

vars ==
    <<resumeText, parsedResume, input, now, syncAgain, apc, first, result, syncResult, spc, mgr, calls, sent, rejections>>

\* the number of callLLM invocations on one manager
MaxInvocations == 2

Slots == 1..MaxInvocations

Foreign == 0

Origins == {Foreign} \cup Slots

(***************************************************************************)
(* Inputs                                                                  *)
(***************************************************************************)
AllSections == {"summary", "experience", "skills", "education", "projects"}

\* parseResume(""): nothing detected, nothing extracted
EmptyResume ==
    [ skills |-> {}, totalExperienceYears |-> 0, jobTitles |-> {}, tokens |-> <<>>,
      educationMentions |-> {}, detectedSections |-> {}, tableLike |-> FALSE,
      actionVerbs |-> 0 ]

\* parseJobDescription("")
EmptyJob ==
    [ requiredSkills |-> {}, preferredSkills |-> {}, roleKeywords |-> {}, keywords |-> {},
      minExperienceYears |-> Nothing, educationRequirements |-> {} ]

Resumes ==
    { EmptyResume,
      [ skills |-> {"javascript", "ts", "react"}, totalExperienceYears |-> 450,
        jobTitles |-> {"engineer"}, tokens |-> <<"react", "typescript", "engineer", "built">>,
        educationMentions |-> {"bachelor"}, detectedSections |-> AllSections,
        tableLike |-> FALSE, actionVerbs |-> 3 ],
      [ skills |-> {"react"}, totalExperienceYears |-> 100,
        jobTitles |-> {}, tokens |-> <<"react", "react", "react", "led">>,
        educationMentions |-> {}, detectedSections |-> {"summary", "skills"},
        tableLike |-> FALSE, actionVerbs |-> 1 ],
      [ skills |-> {}, totalExperienceYears |-> 0,
        jobTitles |-> {}, tokens |-> <<>>,
        educationMentions |-> {}, detectedSections |-> {},
        tableLike |-> TRUE, actionVerbs |-> 0 ] }

Jobs ==
    { [ requiredSkills |-> {"react", "typescript"}, preferredSkills |-> {"graphql"},
        roleKeywords |-> {"engineer"}, keywords |-> {"react", "typescript", "graphql"},
        minExperienceYears |-> Some(3), educationRequirements |-> {"bachelor", "master"} ],
      [ requiredSkills |-> {}, preferredSkills |-> {},
        roleKeywords |-> {}, keywords |-> {},
        minExperienceYears |-> Nothing, educationRequirements |-> {} ] }

WeightChoices ==
    { [ c \in {} |-> 0 ],
      [ c \in Components |-> 0 ],
      [ c \in {"skills"} |-> 100 ],
      [ c \in Components |-> IF c = "skills" THEN 0 - 100 ELSE 100 ],
      [ c \in Components |-> IF c = "skills" THEN 0 - 50 ELSE IF c = "experience" THEN 50 ELSE 0 ],
      [ c \in Components |-> IF c = "education" THEN 0 - 300 ELSE 50 ] }

ProfileChoices ==
    { Nothing,
      Some([ mandatorySkills |-> {}, optionalSkills |-> {}, minExperience |-> Nothing ]) }

RuleChoices ==
    { <<>>,
      << [ penalty |-> 20, warning |-> "too generic", condition |-> TRUE, throws |-> FALSE ],
         [ penalty |-> 7, warning |-> None, condition |-> FALSE, throws |-> FALSE ],
         [ penalty |-> 3, warning |-> "not tailored", condition |-> TRUE, throws |-> FALSE ] >>,
      << [ penalty |-> 0 - 20, warning |-> "", condition |-> TRUE, throws |-> FALSE ] >>,
      << [ penalty |-> 5, warning |-> "unreadable", condition |-> TRUE, throws |-> TRUE ] >> }

PenaltyChoices ==
    { [ sectionPenalties |-> [ k \in {} |-> 0 ], keywordDensity |-> Nothing ],
      [ sectionPenalties |-> [ k \in {"missingSummary", "missingSkills"} |-> 0 - 50 ],
        keywordDensity |-> Some([ maxNum |-> 1, maxDen |-> 2, overusePenalty |-> 0 - 3 ]) ] }

Configs ==
    { [ weights |-> w, profile |-> p, rules |-> r,
        keywordDensity |-> pc.keywordDensity, sectionPenalties |-> pc.sectionPenalties ] :
        w \in WeightChoices, p \in ProfileChoices, r \in RuleChoices, pc \in PenaltyChoices }

Limits(maxCalls, maxTokensPerCall, maxTotalTokens) ==
    [ maxCalls |-> maxCalls, maxTokensPerCall |-> maxTokensPerCall,
      maxTotalTokens |-> maxTotalTokens ]

LLMConfigs ==
    { [ enable |-> [ suggestions |-> e ], limits |-> l, timeoutMs |-> Nothing ] :
        e \in {TRUE}, l \in { Limits(1, 2000, 5000), Limits(0, 2000, 5000),
                              Limits(1, 1000, 5000), Limits(1, 2000, 1000) } }
    \cup { [ enable |-> [ suggestions |-> FALSE ], limits |-> Limits(1, 2000, 5000),
             timeoutMs |-> Some(50) ] }

Inputs ==
    { [ resume |-> r, job |-> j, config |-> c, llm |-> l ] :
        r \in Resumes, j \in Jobs, c \in Configs,
        l \in {Nothing} \cup { Some(x) : x \in LLMConfigs } }

\* what a client resolves with: [content, total_tokens]
Contents ==
    { Undefined, Str(""),
      Str("not valid json"), Str("null"), Str("[]"), Str("{wrong_field}"),
      Str("{suggestions:[E1]}"),
      Obj([ k \in {"suggestions"} |-> Str("E1") ]),
      Payload(<<>>),
      Payload(<< Str("E1") >>),
      Payload(<< GoodItem(Str("E1"), Bool(FALSE)) >>),
      Payload(<< GoodItem(Str("E1"), Bool(FALSE)), GoodItem(Str("E2"), Undefined),
                 GoodItem(Str(""), Bool(TRUE)), GoodItem(Str("E3"), Str("yes")),
                 Obj([ k \in {"enhanced"} |-> Str("E4") ]) >>),
      Payload(<< GoodItem(Num(42), Bool(TRUE)) >>) }

Usages == { Nothing, Some(0), Some(50), Some(9000) }

Responses == { [ content |-> c, total_tokens |-> u ] : c \in Contents, u \in Usages }

\* what a client rejects with or throws: an Error, or no value at all
Reasons == { "provider error", "undefined" }

NoManager == LLMManager([ limits |-> Limits(0, 0, 0), timeoutMs |-> Nothing ])

(***************************************************************************)
(* analyzeResume and analyzeResumeAsync                                    *)
(***************************************************************************)
Init ==
    /\ input \in Inputs
    /\ apc = "start"
    /\ first = Nothing
    /\ result = Nothing
    /\ syncResult = Nothing
    /\ spc = "start"
    /\ now = 0
    /\ syncAgain = Nothing
    /\ resumeText = <<>>
    /\ parsedResume = Nothing
    /\ mgr = NoManager
    /\ calls = [ i \in Slots |-> IdleCall ]
    /\ sent = <<>>
    /\ rejections = [ o \in Origins |-> "none" ]

\* index.ts: analyzeResume, the whole call
analyzeResume ==
    /\ spc = "start"
    /\ IF Throws(input.config)
       THEN spc' = "threw" /\ UNCHANGED syncResult
       ELSE spc' = "returned" /\ syncResult' = Some(analyzeResumeResult(Parsed(input, now)))
    /\ UNCHANGED <<resumeText, parsedResume, input, now, syncAgain, apc, first, result, mgr, calls, sent, rejections>>

\* index.ts: analyzeResumeAsync up to its first suspension: the first pass
\* and, when the enhancement branch is taken, the construction of the manager
\* and callLLM up to its own first suspension
analyzeResumeAsync_begin ==
    /\ apc = "start"
    /\ LET fp == FirstPass(Parsed(input, now))
           enhance == EnhancementRequested(input.llm, fp.suggestions)
       IN  IF Throws(input.config)
           THEN apc' = "rejected" /\ UNCHANGED <<first, result, mgr, calls, sent>>
           ELSE
           /\ first' = Some(fp)
           /\ IF ~enhance
              THEN /\ result' = Some(Assemble(fp, FALSE, enhanceSuggestionsWithLLM(
                                       [ enable |-> [ suggestions |-> FALSE ] ], <<>>)))
                   /\ apc' = "done"
                   /\ UNCHANGED <<mgr, calls, sent>>
              ELSE IF ~input.llm[1].enable.suggestions
              THEN /\ result' = Some(Assemble(fp, TRUE,
                                       [ success |-> FALSE, enhancedSuggestions |-> Nothing,
                                         warnings |-> <<>> ]))
                   /\ apc' = "done"
                   /\ UNCHANGED <<mgr, calls, sent>>
              ELSE \E behaviour \in {"promise"} \cup Reasons :
                     LET started == callLLM(LLMManager(input.llm[1]),
                                            suggestionEnhancementSystemLen,
                                            suggestionEnhancementUserLen(fp.suggestions),
                                            suggestionEnhancementSchema,
                                            [ requestedTokens |-> Some(2000) ],
                                            behaviour)
                     IN  /\ mgr' = started.mgr
                         /\ calls' = [ calls EXCEPT ![1] = started.call ]
                         /\ sent' = sent \o started.request
                         /\ apc' = "enhancing"
                         /\ UNCHANGED result
    /\ UNCHANGED <<resumeText, parsedResume, input, now, syncAgain, syncResult, spc, rejections>>

\* index.ts: analyzeResumeAsync after callLLM has settled: the rest of
\* enhanceSuggestionsWithLLMAsync, the substitution and the returned object
analyzeResumeAsync_finish ==
    /\ apc = "enhancing"
    /\ calls[1].pc \in {"returned", "threw"}
    /\ LET llmResult == enhanceSuggestionsWithLLMAsync(mgr, calls[1])
       IN  IF llmResult = EnhanceRejected
           THEN apc' = "rejected" /\ UNCHANGED result
           ELSE /\ result' = Some(Assemble(first[1], TRUE, llmResult))
                /\ apc' = "done"
    /\ UNCHANGED <<resumeText, parsedResume, input, now, syncAgain, first, syncResult, spc, mgr, calls, sent, rejections>>

(***************************************************************************)
(* The client and the timers of one callLLM invocation                     *)
(***************************************************************************)
\* the client promise resolves with one of responses
ClientResolveWith(i, responses) ==
    /\ calls[i].client = "pending"
    /\ \E response \in responses :
         LET c == [ calls[i] EXCEPT !.client = "resolved",
                                    !.timer = IF @ = "armed" THEN "cleared" ELSE @ ]
         IN  CASE calls[i].pc = "race" ->
                    /\ mgr' = OnResponse(mgr, c, response).mgr
                    /\ calls' = [ calls EXCEPT ![i] =
                                   [ OnResponse(mgr, c, response).call EXCEPT
                                       !.response = Some(response) ] ]
               [] calls[i].pc = "grace" ->
                    /\ calls' = [ calls EXCEPT ![i] = OnDrained(c) ]
                    /\ UNCHANGED mgr
               [] OTHER ->
                    /\ calls' = [ calls EXCEPT ![i] = c ]
                    /\ UNCHANGED mgr
    /\ UNCHANGED <<resumeText, parsedResume, input, now, syncAgain, apc, first, result, syncResult, spc, sent, rejections>>

ClientResolve(i) == ClientResolveWith(i, Responses)

\* the client promise rejects
ClientReject(i) ==
    /\ calls[i].client = "pending"
    /\ \E reason \in Reasons :
         LET c == [ calls[i] EXCEPT !.client = "rejected",
                                    !.timer = IF @ = "armed" THEN "cleared" ELSE @ ]
         IN  CASE calls[i].pc = "race" ->
                    /\ mgr' = CatchSettled(mgr, c, reason).mgr
                    /\ calls' = [ calls EXCEPT ![i] = CatchSettled(mgr, c, reason).call ]
               [] calls[i].pc = "grace" ->
                    /\ calls' = [ calls EXCEPT ![i] = OnDrained(c) ]
                    /\ UNCHANGED mgr
               [] OTHER ->
                    /\ calls' = [ calls EXCEPT ![i] = c ]
                    /\ UNCHANGED mgr
    \* the promise of clientPromise.finally(...) rejects with it, unhandled
    /\ rejections' = [ rejections EXCEPT ![i] = "pending" ]
    /\ UNCHANGED <<resumeText, parsedResume, input, now, syncAgain, apc, first, result, syncResult, spc, sent>>

\* timeoutMs elapses before the client settles
TimeoutFire(i) ==
    /\ calls[i].pc = "race"
    /\ calls[i].client = "pending"
    /\ calls[i].timer = "armed"
    /\ mgr' = OnTimeout(mgr, calls[i]).mgr
    /\ calls' = [ calls EXCEPT ![i] = OnTimeout(mgr, calls[i]).call ]
    /\ UNCHANGED <<resumeText, parsedResume, input, now, syncAgain, apc, first, result, syncResult, spc, sent, rejections>>

\* the grace period elapses before the client settles
GraceElapse(i) ==
    /\ calls[i].pc = "grace"
    /\ calls[i].client = "pending"
    /\ calls' = [ calls EXCEPT ![i] = OnDrained(calls[i]) ]
    /\ UNCHANGED <<resumeText, parsedResume, input, now, syncAgain, apc, first, result, syncResult, spc, mgr, sent, rejections>>

(***************************************************************************)
(* The process: unhandledRejection events and the listeners of callLLM     *)
(***************************************************************************)
\* the invocations whose onUnhandled listener is registered on the process
Listening == { i \in Slots : calls[i].listener # "off" }

\* the process emits unhandledRejection only once the microtasks have run:
\* the continuation of analyzeResumeAsync after callLLM settled runs first
MicrotasksDrained == ~(apc = "enhancing" /\ calls[1].pc \in {"returned", "threw"})

\* the process emits unhandledRejection for the rejected promise of
\* clientPromise.finally(...) of invocation i
EmitUnhandledRejection(i) ==
    /\ rejections[i] = "pending"
    /\ MicrotasksDrained
    /\ IF Listening = {}
       THEN /\ rejections' = [ rejections EXCEPT ![i] = "escaped" ]
            /\ UNCHANGED mgr
       ELSE /\ rejections' = [ rejections EXCEPT ![i] = "heard" ]
            /\ mgr' = onUnhandled(mgr, Cardinality(Listening), "client rejection")
    /\ UNCHANGED <<resumeText, parsedResume, input, now, syncAgain, apc, first, result, syncResult, spc, calls, sent>>

\* a promise of other code of the process (an overlapping analysis, say) is
\* rejected unhandled and the process emits unhandledRejection while
\* listeners of callLLM are registered
ForeignRejection ==
    /\ rejections[Foreign] = "none"
    /\ MicrotasksDrained
    /\ Listening # {}
    /\ rejections' = [ rejections EXCEPT ![Foreign] = "heard" ]
    /\ mgr' = onUnhandled(mgr, Cardinality(Listening), "foreign rejection")
    /\ UNCHANGED <<resumeText, parsedResume, input, now, syncAgain, apc, first, result, syncResult, spc, calls, sent>>

\* lines 62 and 70: the removal scheduled 100 ms ahead takes place
RemoveListener(i) ==
    /\ calls[i].listener = "removing"
    /\ calls' = [ calls EXCEPT ![i].listener = "off" ]
    /\ UNCHANGED <<resumeText, parsedResume, input, now, syncAgain, apc, first, result, syncResult, spc, mgr, sent, rejections>>

Next ==
    \/ analyzeResume
    \/ analyzeResumeAsync_begin
    \/ analyzeResumeAsync_finish
    \/ \E i \in Slots : ClientResolve(i)
    \/ \E i \in Slots : ClientReject(i)
    \/ \E i \in Slots : TimeoutFire(i)
    \/ \E i \in Slots : GraceElapse(i)
    \/ \E i \in Slots : EmitUnhandledRejection(i)
    \/ ForeignRejection
    \/ \E i \in Slots : RemoveListener(i)

Spec == Init /\ [][Next]_vars

(***************************************************************************)
(* One LLMManager used directly: callLLM invoked MaxInvocations times, one *)
(* invocation after the other, with any prompts, schema and options        *)
(* (the budget, the dispatch and the results of callLLM; the events of the  *)
(* process, which touch the warnings only, are left to Spec)               *)
(***************************************************************************)
ManagerConfigs ==
    { [ limits |-> l, timeoutMs |-> Nothing ] :
        l \in { Limits(1, 100, 1000), Limits(2, 100, 80) } }

SchemaChoices ==
    { suggestionEnhancementSchema,
      [ type |-> "object", required |-> {"suggestions"} ],
      [ type |-> "object" ],
      [ type |-> "array", required |-> {"suggestions"} ] }

PromptLengths == { 10, 1000 }

RequestedTokens == { Nothing, Some(0), Some(50) }

\* responses that end callLLM in each of its ways: empty, not JSON, not
\* matching the schema, valid as text and valid as an object
ManagerResponses ==
    { [ content |-> c, total_tokens |-> u ] :
        c \in { Undefined, Str("not valid json"), Str("{wrong_field}"),
                Str("{suggestions:[E1]}"), Payload(<< GoodItem(Str("E1"), Bool(TRUE)) >>) },
        u \in { Nothing, Some(0), Some(9000) } }

InitMgr ==
    /\ input \in { in \in Inputs : in = CHOOSE x \in Inputs : x.llm = Nothing }
    /\ apc = "start"
    /\ first = Nothing
    /\ result = Nothing
    /\ syncResult = Nothing
    /\ spc = "start"
    /\ now = 0
    /\ syncAgain = Nothing
    /\ resumeText = <<>>
    /\ parsedResume = Nothing
    /\ mgr \in { LLMManager(cfg) : cfg \in ManagerConfigs }
    /\ calls = [ i \in Slots |-> IdleCall ]
    /\ sent = <<>>
    /\ rejections = [ o \in Origins |-> "none" ]

\* the caller has read the result of an invocation and dropped it; a settled
\* client promise and a spent timer have no further effect
Dropped(c) ==
    [ c EXCEPT !.estimatedTokens = 0, !.schema = IdleCall.schema,
               !.response = Nothing, !.ret = NoResult,
               !.client = IF @ = "pending" THEN @ ELSE "none", !.timer = "none" ]

\* callLLM is invoked for the i-th time, the earlier invocations having ended
Invoke(i) ==
    /\ calls[i].pc = "idle"
    /\ \A j \in 1..(i - 1) : calls[j].pc \in {"returned", "threw"}
    /\ \E userLen \in PromptLengths, schema \in SchemaChoices,
          requestedTokens \in RequestedTokens, behaviour \in {"promise"} \cup Reasons :
         LET started == callLLM(mgr, 6, userLen, schema,
                                [ requestedTokens |-> requestedTokens ], behaviour)
         IN  /\ mgr' = started.mgr
             /\ calls' = [ j \in Slots |->
                             IF j = i THEN started.call
                             ELSE IF j < i THEN Dropped(calls[j]) ELSE calls[j] ]
             /\ sent' = sent \o started.request
    /\ UNCHANGED <<resumeText, parsedResume, input, now, syncAgain, apc, first, result, syncResult, spc, rejections>>

NextMgr ==
    \/ \E i \in Slots : Invoke(i)
    \/ \E i \in Slots : ClientResolveWith(i, ManagerResponses)
    \/ \E i \in Slots : ClientReject(i)
    \/ \E i \in Slots : TimeoutFire(i)
    \/ \E i \in Slots : GraceElapse(i)

SpecMgr == InitMgr /\ [][NextMgr]_vars

(***************************************************************************)
(* One LLMManager whose callLLM is invoked again while earlier invocations *)
(* are still awaiting their client                                         *)
(***************************************************************************)
\* callLLM is invoked for the i-th time, whatever the state of the earlier
\* invocations
InvokeOverlapping(i) ==
    /\ calls[i].pc = "idle"
    /\ \A j \in 1..(i - 1) : calls[j].pc # "idle"
    /\ \E userLen \in PromptLengths, schema \in SchemaChoices,
          requestedTokens \in RequestedTokens, behaviour \in {"promise"} \cup Reasons :
         LET started == callLLM(mgr, 6, userLen, schema,
                                [ requestedTokens |-> requestedTokens ], behaviour)
         IN  /\ mgr' = started.mgr
             /\ calls' = [ calls EXCEPT ![i] = started.call ]
             /\ sent' = sent \o started.request
    /\ UNCHANGED <<resumeText, parsedResume, input, now, syncAgain, apc, first, result,
                   syncResult, spc, rejections>>

NextOverlap ==
    \/ \E i \in Slots : InvokeOverlapping(i)
    \/ \E i \in Slots : ClientResolveWith(i, ManagerResponses)
    \/ \E i \in Slots : ClientReject(i)
    \/ \E i \in Slots : TimeoutFire(i)
    \/ \E i \in Slots : GraceElapse(i)

SpecOverlap == InitMgr /\ [][NextOverlap]_vars

(***************************************************************************)
(* analyzeResume called twice on one input while the clock of the host     *)
(* advances                                                                *)
(***************************************************************************)
\* the number of months the clock advances
MaxMonths == 2

\* resumes whose last position is open ("- Present"), started 12 or 30
\* months before the model starts
OpenResumes ==
    { [ skills |-> {"react", "typescript"}, totalExperienceYears |-> 0,
        jobTitles |-> {"engineer"}, tokens |-> <<"react", "typescript", "engineer", "built">>,
        educationMentions |-> {"bachelor"}, detectedSections |-> AllSections,
        tableLike |-> FALSE, actionVerbs |-> 3, openSince |-> since, closedMonths |-> closed ] :
        since \in {12, 30}, closed \in {0, 6} }

InitClock ==
    /\ input \in { [ resume |-> r, job |-> j, config |-> c, llm |-> Nothing ] :
                     r \in OpenResumes \cup {EmptyResume}, j \in Jobs,
                     c \in { x \in Configs : x.rules = <<>> /\ x.profile = Nothing } }
    /\ apc = "start"
    /\ first = Nothing
    /\ result = Nothing
    /\ syncResult = Nothing
    /\ spc = "start"
    /\ now = 0
    /\ syncAgain = Nothing
    /\ resumeText = <<>>
    /\ parsedResume = Nothing
    /\ mgr = NoManager
    /\ calls = [ i \in Slots |-> IdleCall ]
    /\ sent = <<>>
    /\ rejections = [ o \in Origins |-> "none" ]

\* a month passes
Tick ==
    /\ now < MaxMonths
    /\ now' = now + 1
    /\ UNCHANGED <<resumeText, parsedResume, input, syncAgain, apc, first, result, syncResult, spc, mgr, calls, sent,
                   rejections>>

\* index.ts: analyzeResume, called again with the same argument
analyzeResumeAgain ==
    /\ spc = "returned"
    /\ syncAgain = Nothing
    /\ syncAgain' = Some(analyzeResumeResult(Parsed(input, now)))
    /\ UNCHANGED <<resumeText, parsedResume, input, now, apc, first, result, syncResult, spc, mgr, calls, sent,
                   rejections>>

NextClock ==
    \/ analyzeResume
    \/ analyzeResumeAgain
    \/ Tick

SpecClock == InitClock /\ [][NextClock]_vars

\* the configuration that leaves every option at its default
PlainConfig ==
    [ weights |-> [ c \in {} |-> 0 ], profile |-> Nothing, rules |-> <<>>,
      keywordDensity |-> Nothing, sectionPenalties |-> [ k \in {} |-> 0 ] ]

(***************************************************************************)
(* analyzeResume on resumes and jobs that differ in their keywords         *)
(***************************************************************************)
MaxTokens == 4

Words == {"react", "constructor", "built"}

TokenLists == UNION { [ 1..n -> Words ] : n \in 0..MaxTokens }

InitDensity ==
    /\ input \in
         { [ resume |-> [ skills |-> {}, totalExperienceYears |-> 0, jobTitles |-> {},
                          tokens |-> t, educationMentions |-> {},
                          detectedSections |-> AllSections, tableLike |-> FALSE,
                          actionVerbs |-> 3 ],
             job |-> [ requiredSkills |-> {}, preferredSkills |-> {}, roleKeywords |-> {},
                       keywords |-> k, minExperienceYears |-> Nothing,
                       educationRequirements |-> {} ],
             config |-> [ PlainConfig EXCEPT !.keywordDensity = d ],
             llm |-> Nothing ] :
             t \in TokenLists,
             k \in { {"react"}, {"react", "constructor"} },
             d \in { Nothing, Some([ maxNum |-> 1, maxDen |-> 2, overusePenalty |-> 5 ]) } }
    /\ apc = "start"
    /\ first = Nothing
    /\ result = Nothing
    /\ syncResult = Nothing
    /\ spc = "start"
    /\ now = 0
    /\ syncAgain = Nothing
    /\ resumeText = <<>>
    /\ parsedResume = Nothing
    /\ mgr = NoManager
    /\ calls = [ i \in Slots |-> IdleCall ]
    /\ sent = <<>>
    /\ rejections = [ o \in Origins |-> "none" ]

SpecDensity == InitDensity /\ [][analyzeResume]_vars

(***************************************************************************)
(* core/parser/resume.parser.ts: the sections and the experience entries   *)
(* that parseResume extracts from the lines of a resume text.  A text is   *)
(* the sequence of its trimmed non-empty lines (splitLines).               *)
(***************************************************************************)
\* detectSection on the lines the model uses: the section a header line
\* names, Nothing for a line that is no header
detectSection(line) ==
    CASE line = "Skills" -> Some("skills")
      [] line = "Experience" -> Some("experience")
      [] OTHER -> Nothing

\* parseDateRange(line) finds a date range in the line
HasDateRange(line) == line \in {"2020 - 2022", "Engineer (2020 - Present)"}

\* the lowercased match of the title pattern at the start of the line
\* (a leading role keyword followed by everything up to a comma or hyphen),
\* Nothing if the line does not begin with a role keyword
titleMatch(line) ==
    CASE line = "Senior Engineer" -> Some("senior engineer")
      [] line = "Engineer (2020 - Present)" -> Some("engineer (2020")
      [] OTHER -> Nothing

\* flush: stores the buffer as the content of the current section and
\* empties it, only if a section is open
flush(st) ==
    IF st.current # Nothing
    THEN [ st EXCEPT
             !.sections = [ s \in DOMAIN st.sections \cup {st.current[1]} |->
                              IF s = st.current[1] THEN st.buffer ELSE st.sections[s] ],
             !.buffer = <<>> ]
    ELSE st

RECURSIVE extractSectionsLoop(_, _)
extractSectionsLoop(lines, st) ==
    IF lines = <<>> THEN flush(st)
    ELSE LET line == Head(lines)
             maybeSection == detectSection(line)
         IN  IF maybeSection # Nothing
             THEN extractSectionsLoop(Tail(lines),
                      [ flush(st) EXCEPT !.current = maybeSection,
                                         !.detected = @ \cup {maybeSection[1]} ])
             ELSE extractSectionsLoop(Tail(lines), [ st EXCEPT !.buffer = Append(@, line) ])

\* sections maps each detected section to the lines of its content
extractSections(lines) ==
    LET st == extractSectionsLoop(lines,
                  [ current |-> Nothing, buffer |-> <<>>,
                    sections |-> [ s \in {} |-> <<>> ], detected |-> {} ])
    IN  [ sections |-> st.sections, detected |-> st.detected ]

RECURSIVE parseExperienceLoop(_, _)
\* an entry is [title, dates, description]: title and dates optional,
\* description the lines joined into it
parseExperienceLoop(lines, acc) ==
    IF lines = <<>> THEN acc
    ELSE LET line == Head(lines)
             n == Len(acc.entries)
         IN  IF HasDateRange(line)
             THEN parseExperienceLoop(Tail(lines),
                      IF n > 0 /\ acc.entries[n].dates = Nothing
                      THEN [ acc EXCEPT !.entries[n].dates = Some(line) ]
                      ELSE [ acc EXCEPT !.entries =
                               Append(@, [ title |-> Nothing, dates |-> Some(line),
                                           description |-> <<>> ]) ])
             ELSE IF titleMatch(line) # Nothing
             THEN parseExperienceLoop(Tail(lines),
                      [ entries |-> Append(acc.entries,
                                       [ title |-> titleMatch(line), dates |-> Nothing,
                                         description |-> <<line>> ]),
                        jobTitles |-> acc.jobTitles \cup {titleMatch(line)[1]} ])
             ELSE IF n > 0
             THEN parseExperienceLoop(Tail(lines),
                      [ acc EXCEPT !.entries[n].description = Append(@, line) ])
             ELSE parseExperienceLoop(Tail(lines), acc)

parseExperience(sectionContent) ==
    parseExperienceLoop(sectionContent, [ entries |-> <<>>, jobTitles |-> {} ])

MaxLines == 4

Lines ==
    { "Skills", "Experience", "John Doe", "Senior Engineer", "2020 - 2022",
      "Engineer (2020 - Present)" }

InitParser ==
    /\ resumeText \in UNION { [ 1..n -> Lines ] : n \in 0..MaxLines }
    /\ parsedResume = Nothing
    /\ input = [ resume |-> EmptyResume, job |-> EmptyJob, config |-> PlainConfig,
                 llm |-> Nothing ]
    /\ apc = "start"
    /\ first = Nothing
    /\ result = Nothing
    /\ syncResult = Nothing
    /\ spc = "start"
    /\ now = 0
    /\ syncAgain = Nothing
    /\ mgr = NoManager
    /\ calls = [ i \in Slots |-> IdleCall ]
    /\ sent = <<>>
    /\ rejections = [ o \in Origins |-> "none" ]

\* parseResume, lines 319-354: the sections, then the experience entries of
\* the experience section
parseResumeText ==
    /\ parsedResume = Nothing
    /\ LET extracted == extractSections(resumeText)
           experience ==
               parseExperience(IF "experience" \in DOMAIN extracted.sections
                               THEN extracted.sections["experience"] ELSE <<>>)
       IN  parsedResume' = Some([ sections |-> extracted.sections,
                                  detectedSections |-> extracted.detected,
                                  experience |-> experience.entries,
                                  jobTitles |-> experience.jobTitles ])
    /\ UNCHANGED <<resumeText, input, now, syncAgain, apc, first, result, syncResult, spc,
                   mgr, calls, sent, rejections>>

SpecParser == InitParser /\ [][parseResumeText]_vars

\* the timers of callLLM are timers of the event loop: once set they fire;
\* the continuation of analyzeResumeAsync runs once its await has settled.
\* Nothing obliges the client to settle, nor a caller to call.
\* Whether the analysis ends does not depend on the scoring configuration:
\* the fair behaviours are explored for the default configuration.
InitPlain == Init /\ input.config = PlainConfig

FairSpec ==
    /\ InitPlain /\ [][Next]_vars
    /\ WF_vars(analyzeResumeAsync_finish)
    /\ \A i \in Slots :
           WF_vars(TimeoutFire(i)) /\ WF_vars(GraceElapse(i)) /\ WF_vars(RemoveListener(i))

(***************************************************************************)
(* Properties of the entry points                                          *)
(***************************************************************************)
Returned == { r[1] : r \in {result, syncResult} \ {Nothing} }

\* the result of the same analysis run without an enhancement configuration
Deterministic ==
    Assemble(FirstPass([ input EXCEPT !.llm = Nothing ]), FALSE, enhanceCatch)

\* the enhancement branch of analyzeResumeAsync was taken and callLLM invoked
Attempted == apc \in {"enhancing", "done", "rejected"} /\ calls[1].pc # "idle"

\* the five stages of a successful enhancement, read off the inputs, the
\* client's response and the timer rather than off the value callLLM returned
BudgetPassed ==
    /\ input.llm # Nothing
    /\ 0 < input.llm[1].limits.maxCalls
    /\ 2000 <= input.llm[1].limits.maxTokensPerCall
    /\ 2000 <= input.llm[1].limits.maxTotalTokens

ResolvedInTime ==
    /\ calls[1].response # Nothing
    /\ calls[1].client = "resolved"
    /\ calls[1].timer = "cleared"

ParsedContent ==
    LET content == calls[1].response[1].content
    IN  IF content.t = "string" THEN JSONparse(content.s)
        ELSE IF Truthy(content) THEN Some(content) ELSE Nothing

AdaptedList == ActionableEnhanced(adaptSuggestionEnhancementResponse(ParsedContent[1]))

FullSuccess ==
    /\ Attempted
    /\ BudgetPassed
    /\ ResolvedInTime
    /\ Truthy(calls[1].response[1].content)
    /\ ParsedContent # Nothing
    /\ validateJsonSchema(ParsedContent[1], suggestionEnhancementSchema)
    /\ AdaptedList # <<>>

C2_NonInterference ==
    result # Nothing =>
        /\ result[1].score = Deterministic.score
        /\ result[1].breakdown = Deterministic.breakdown
        /\ result[1].matchedKeywords = Deterministic.matchedKeywords
        /\ result[1].missingKeywords = Deterministic.missingKeywords
        /\ result[1].overusedKeywords = Deterministic.overusedKeywords

\* an enhancement succeeded and replaced the suggestions of an analysis whose
\* penalties are not zero
C2_Witness ==
    /\ result # Nothing
    /\ Attempted
    /\ result[1].suggestions # Deterministic.suggestions
    /\ first[1].totalPenalty # 0
    /\ result[1].overusedKeywords # {}

\* C3: unless the budget check passed, the client resolved before the
\* timeout, the content parsed, the parsed object matched the schema and
\* the adapted list is non-empty, analyzeResumeAsync returns exactly the
\* deterministic suggestions.
C3_SubstitutionOnlyOnSuccess ==
    (result # Nothing /\ ~FullSuccess) =>
        result[1].suggestions = Deterministic.suggestions

\* an analysis returned after a response that passed the schema but adapted
\* to nothing, and another case where the suggestions were replaced
C3_Witness ==
    /\ result # Nothing
    /\ Attempted
    /\ ResolvedInTime
    /\ ParsedContent # Nothing
    /\ validateJsonSchema(ParsedContent[1], suggestionEnhancementSchema)
    /\ AdaptedList = <<>>

FailureWarnings ==
    { "LLM suggestion enhancement failed", "LLM returned no actionable enhanced suggestions",
      "Unexpected error in LLM enhancement", "LLM budget exhausted", "LLM call failed",
      "Invalid JSON in LLM response", "LLM response does not match schema" }

\* C4: when an attempted enhancement fails, the warnings of the result are
\* the deterministic warnings followed by at least one warning that
\* describes the failure.
C4_FailureWarning ==
    (result # Nothing /\ Attempted /\ ~FullSuccess) =>
        LET w == result[1].warnings
            n == Len(Deterministic.warnings)
        IN  /\ Len(w) > n
            /\ SubSeq(w, 1, n) = Deterministic.warnings
            /\ \E k \in (n + 1)..Len(w) : w[k][1] \in FailureWarnings

\* an analysis returned after the client resolved with an empty response
C4_Witness ==
    /\ result # Nothing
    /\ Attempted
    /\ ResolvedInTime
    /\ ~Truthy(calls[1].response[1].content)

\* C5: an analyzeResumeAsync that has entered the enhancement resolves with
\* a result, and does not reject, whatever the client does.
C5_AlwaysResolves == (apc = "enhancing") ~> (apc = "done" /\ result # Nothing)

\* analyzeResumeAsync resolved although callLLM itself ended with an exception
C5_Witness ==
    /\ apc = "done"
    /\ result # Nothing
    /\ calls[1].pc = "threw"

(***************************************************************************)
(* Properties of one LLMManager (SpecMgr)                                  *)
(***************************************************************************)
\* the i-th invocation runs its synchronous part in this step
Invoked(i) == calls[i].pc = "idle" /\ calls'[i].pc # "idle"

\* the i-th invocation returns its result in this step
Returns(i) == calls[i].pc \in {"idle", "race", "grace"} /\ calls'[i].pc = "returned"

\* the number of client.createCompletion invocations so far
Dispatches == Len(sent)

\* C6: over any sequence of callLLM invocations on one manager, the client
\* is invoked at most limits.maxCalls times.
C6_CallLimitHard == Dispatches <= mgr.limits.maxCalls

\* C7: after any sequence of callLLM invocations on one manager, the recorded
\* token usage is at most limits.maxTotalTokens.
C7_TokenLimitHard == mgr.budget.totalTokensUsed <= mgr.limits.maxTotalTokens

\* C8: an invocation of callLLM invokes the client if and only if callsUsed <
\* maxCalls, estimate <= maxTokensPerCall, tokensUsed + estimate <=
\* maxTotalTokens and the schema is an object schema with properties or
\* required; otherwise it returns a failure flagged for fallback with an
\* error and does not invoke the client, a budget error taking precedence
\* over the schema error.
C8_DispatchGuard ==
    [][ \A i \in Slots : Invoked(i) =>
          LET estimate == calls'[i].estimatedTokens
              schema == calls'[i].schema
              ret == calls'[i].ret
              budgetOk == /\ mgr.budget.callCount < mgr.limits.maxCalls
                          /\ estimate <= mgr.limits.maxTokensPerCall
                          /\ mgr.budget.totalTokensUsed + estimate <= mgr.limits.maxTotalTokens
              schemaOk == /\ schema.type = "object"
                          /\ ("properties" \in DOMAIN schema \/ "required" \in DOMAIN schema)
          IN  IF budgetOk /\ schemaOk
              THEN Len(sent') = Len(sent) + 1
              ELSE /\ sent' = sent
                   /\ calls'[i].pc = "returned"
                   /\ ~ret.success /\ ret.fallback /\ ret.error # <<>>
                   /\ ret.error[1] = IF budgetOk THEN "Invalid JSON schema provided"
                                     ELSE "LLM budget exhausted" ]_vars

\* one manager has dispatched one invocation and refused another, whose
\* schema was also invalid, with the budget error
C8_Witness ==
    \E i, j \in Slots :
        /\ j < i /\ Dispatches = 1
        /\ calls[i].client = "none" /\ calls[i].pc = "returned"
        /\ calls[i].ret.error = <<"LLM budget exhausted", "Total token budget exceeded">>
        /\ ~isValidJsonSchema(calls[i].schema)

\* C9 as stated: a successful return adds 1 to callsUsed and the reported
\* total_tokens (the estimate when none is reported) to tokensUsed; a failed
\* return leaves both unchanged.
C9_CountersAsStated ==
    [][ \A i \in Slots : Returns(i) =>
          IF calls'[i].ret.success
          THEN LET reported == calls'[i].response[1].total_tokens
               IN  /\ mgr'.budget.callCount = mgr.budget.callCount + 1
                   /\ mgr'.budget.totalTokensUsed = mgr.budget.totalTokensUsed +
                        (IF reported # Nothing THEN reported[1]
                         ELSE calls'[i].estimatedTokens)
          ELSE mgr'.budget = mgr.budget ]_vars

\* C9 (amended): a successful return adds 1 to callsUsed and, to tokensUsed,
\* the reported total_tokens, or the estimate when no total or a total of 0
\* is reported; a failed return, and every other step, leaves both unchanged.
C9_CountersOnSuccess ==
    [][ /\ \A i \in Slots : Returns(i) =>
              IF calls'[i].ret.success
              THEN LET reported == calls'[i].response[1].total_tokens
                   IN  /\ mgr'.budget.callCount = mgr.budget.callCount + 1
                       /\ mgr'.budget.totalTokensUsed = mgr.budget.totalTokensUsed +
                            (IF reported # Nothing /\ reported[1] # 0 THEN reported[1]
                             ELSE calls'[i].estimatedTokens)
              ELSE mgr'.budget = mgr.budget
        /\ mgr'.budget # mgr.budget =>
              \E i \in Slots : Returns(i) /\ calls'[i].ret.success ]_vars

\* a call whose provider reported a total of 0 has succeeded and its estimate
\* has been recorded; an earlier call had failed without being recorded
C9_Witness ==
    \E i \in Slots :
        /\ calls[i].pc = "returned" /\ calls[i].ret.success
        /\ calls[i].response # Nothing
        /\ calls[i].response[1].total_tokens = Some(0)
        /\ calls[i].ret.tokensUsed = Some(calls[i].estimatedTokens)
        /\ mgr.budget = [ callCount |-> 1, totalTokensUsed |-> calls[i].estimatedTokens ]
        /\ Dispatches = 2

\* C10: no invocation of callLLM ends other than by returning a result,
\* whatever the client does.
C10_AlwaysReturns == \A i \in Slots : calls[i].pc # "threw"

(***************************************************************************)
(* Properties of the process around one analysis (Spec)                    *)
(***************************************************************************)
\* the client of invocation i settled after the timeout had fired
LateSettlement(i) == calls[i].timer = "fired" /\ calls[i].client \in {"resolved", "rejected"}

\* C11: when the client settles after the timeout has fired, callLLM still
\* returns the failure flagged for fallback, the budget counters are not
\* incremented, the suggestions are not substituted, and the rejection is not
\* surfaced: callLLM does not reject and no rejection reaches the process with
\* no listener of callLLM registered.
C11_LateSettlementHarmless ==
    \A i \in Slots : LateSettlement(i) =>
        /\ calls[i].pc \in {"grace", "returned"}
        /\ calls[i].pc = "returned" =>
               ~calls[i].ret.success /\ calls[i].ret.fallback /\ calls[i].ret.error # <<>>
        /\ mgr.budget = [ callCount |-> 0, totalTokensUsed |-> 0 ]
        /\ result # Nothing => result[1].suggestions = Deterministic.suggestions
        /\ apc # "rejected"
        /\ rejections[i] # "escaped"

\* the three cases in which analyzeResumeAsync leaves the client alone
NoEnhancementDue ==
    \/ input.llm = Nothing
    \/ ~input.llm[1].enable.suggestions
    \/ Deterministic.suggestions = <<>>

\* C12: analyzeResumeAsync invokes the client at most once, and not at all
\* when no enhancement configuration is supplied, when the suggestions
\* feature is not enabled or when the deterministic suggestion list is empty;
\* in those cases its result is the deterministic result, warnings included.
C12_ClientAtMostOnce ==
    /\ Dispatches <= 1
    /\ NoEnhancementDue =>
          /\ Dispatches = 0
          /\ result # Nothing => result[1] = Deterministic

\* analyzeResumeAsync has returned for a configuration with the feature
\* enabled and a resume that yields no suggestion
C12_Witness ==
    /\ apc = "done" /\ result # Nothing
    /\ input.llm # Nothing /\ input.llm[1].enable.suggestions
    /\ Deterministic.suggestions = <<>>

\* C13: an analysis is isolated from the rest of the process: no warning of
\* its result stems from a promise rejection that its own client call did not
\* cause.
C13_NoForeignWarning ==
    result # Nothing =>
        \A k \in DOMAIN result[1].warnings :
            result[1].warnings[k] # <<"Unhandled rejection during LLM call", "foreign rejection">>

\* analyzeResume returns in this step, for an input with an enhancement
\* configuration
SyncReturnsWithLLM == syncResult = Nothing /\ syncResult' # Nothing /\ input.llm # Nothing

SkippedNotice == <<"LLM suggestion enhancement skipped", "">>

C15_EmptyInputRejected ==
    (input.resume = EmptyResume \/ input.job = EmptyJob) =>
        result = Nothing /\ syncResult = Nothing

\* C16: analyzeResume always returns a result: no error raised inside the
\* pipeline, by a predicate of a user rule for one, ends the call without one.
C16_SyncAlwaysReturns == spc # "threw"

(***************************************************************************)
(* Properties of analyzeResume over time (SpecClock)                       *)
(***************************************************************************)
\* C17: two calls of analyzeResume with the same resume text, job text and
\* config return identical results, whenever they are made.
C17_SyncIdempotent == syncAgain # Nothing => syncAgain = syncResult

(***************************************************************************)
(* Properties of the rule engine and the final score (Spec)                *)
(***************************************************************************)
\* the composite score and the result of the built-in rules for the input
Composite ==
    calculateScore(Parsed(input, now).resume, input.job, resolveConfig(input.config))

BuiltIn ==
    applyDefaultRules(Parsed(input, now).resume, Composite.overusedKeywords,
                      resolveConfig(input.config))

\* the user rules whose predicate is true, in declaration order
TrueRules == SelectSeq(input.config.rules, LAMBDA rule : rule.condition)

\* the warnings of the true user rules that carry one, in declaration order
TrueRuleWarnings ==
    LET warned == SelectSeq(TrueRules, LAMBDA rule : rule.warning \notin {None, ""})
    IN  [ k \in 1..Len(warned) |-> <<"rule", warned[k].warning>> ]

\* C18: the final score is clamp(composite - totalPenalty, 0, 100), where
\* totalPenalty is the sum of the built-in penalties and of the penalties of
\* exactly the user rules whose predicate is true; the warnings of the true
\* user rules follow the built-in warnings, in declaration order.
C18_PenaltiesAndWarnings ==
    \A r \in Returned :
        LET totalPenalty ==
                BuiltIn.totalPenalty
                + SeqSum([ k \in 1..Len(TrueRules) |-> TrueRules[k].penalty ])
            ruleWarnings == BuiltIn.warnings \o TrueRuleWarnings
        IN  /\ r.score = clamp(Composite.score - totalPenalty * 100, 0, 10000)
            /\ Len(r.warnings) >= Len(ruleWarnings)
            /\ SubSeq(r.warnings, 1, Len(ruleWarnings)) = ruleWarnings

\* a result whose score lies strictly inside the range, with built-in
\* warnings, two true user rules with warnings and a false one between them
C18_Witness ==
    /\ syncResult # Nothing
    /\ result # Nothing
    /\ BuiltIn.warnings # <<>>
    /\ Len(TrueRuleWarnings) = 2
    /\ Len(TrueRules) < Len(input.config.rules)
    /\ syncResult[1].score > 0
    /\ syncResult[1].score < Composite.score

\* the resume lacks the summary, experience, skills and education sections
AllRequiredMissing == Range(requiredSections) \cap input.resume.detectedSections = {}

\* the four warnings of applySectionPenalties
SectionMissingWarnings == { <<"section missing", section>> : section \in Range(requiredSections) }

\* the configuration leaves the section penalties and the keyword density at
\* their defaults and has no true rule with a negative penalty
PositivePenalties ==
    /\ DOMAIN input.config.sectionPenalties = {}
    /\ input.config.keywordDensity = Nothing
    /\ \A k \in 1..Len(TrueRules) : TrueRules[k].penalty >= 0

\* C19 as stated: a resume without the four required sections gets the four
\* 'section missing' warnings and a score strictly below the composite score,
\* for every job and configuration.
C19_AllMissingLowersScore ==
    \A r \in Returned :
        AllRequiredMissing =>
            /\ SectionMissingWarnings \subseteq Range(r.warnings)
            /\ r.score < Composite.score

\* C19: a resume without the four required sections gets the four 'section
\* missing' warnings; its score never exceeds the composite score when the
\* penalties are not negative, and is strictly below it when in addition the
\* composite score is above 0.
C19_AllMissingWarned ==
    \A r \in Returned :
        AllRequiredMissing =>
            /\ SectionMissingWarnings \subseteq Range(r.warnings)
            /\ PositivePenalties => r.score <= Composite.score
            /\ PositivePenalties /\ Composite.score > 0 => r.score < Composite.score

C19_Witness ==
    /\ syncResult # Nothing
    /\ result # Nothing
    /\ AllRequiredMissing
    /\ PositivePenalties
    /\ TrueRules # <<>>
    /\ Composite.score > 0
    /\ syncResult[1].score > 0
    /\ syncResult[1].score < Composite.score

(***************************************************************************)
(* Properties of the keyword density (SpecDensity)                         *)
(***************************************************************************)
\* C20: a matched job keyword is in overusedKeywords exactly if its number
\* of occurrences among the resume tokens, divided by the number of resume
\* tokens, is strictly greater than keywordDensity.max; overusedKeywords is a
\* subset of matchedKeywords.
C20_DensityBoundary ==
    syncResult # Nothing =>
        LET r == syncResult[1]
            tokens == input.resume.tokens
            density == resolveConfig(input.config).keywordDensity
        IN  /\ r.overusedKeywords \subseteq r.matchedKeywords
            /\ \A k \in r.matchedKeywords :
                   k \in r.overusedKeywords
                     <=> Count(tokens, k) * density.maxDen > density.maxNum * Len(tokens)

(***************************************************************************)
(* Properties of the skills component (Spec)                               *)
(***************************************************************************)
\* C21: when the job states no required skills the required-skill coverage
\* is 1, so the skills component is at least its full required share of 70
\* points, whatever the resume and the configuration.
C21_NoRequiredSkillsFullShare ==
    \A r \in Returned : input.job.requiredSkills = {} => r.breakdown.skills >= 7000

(***************************************************************************)
(* Properties of the weight resolution (SpecClock)                         *)
(***************************************************************************)
\* the weights of the configuration, a missing one taken from the defaults
SuppliedWeights == [ c \in Components |-> OrDefault(input.config.weights, c, DEFAULT_WEIGHTS) ]

WeightTotal ==
    SuppliedWeights.skills + SuppliedWeights.experience
    + SuppliedWeights.keywords + SuppliedWeights.education

\* C22 as stated: weights with a non-zero sum are resolved to weights that
\* sum to 1 in the supplied proportions; weights with sum zero are passed
\* through unchanged, so the composite score is 0.
C22_ZeroSumCompositeZero ==
    syncResult # Nothing =>
        LET resolved == resolveConfig(input.config).weights
        IN  /\ WeightTotal # 0 =>
                /\ resolved.w.skills + resolved.w.experience
                   + resolved.w.keywords + resolved.w.education = resolved.den
                /\ \A c \in Components :
                       resolved.w[c] * WeightTotal = SuppliedWeights[c] * resolved.den
            /\ WeightTotal = 0 =>
                /\ resolved.w = SuppliedWeights /\ resolved.den = 100
                /\ Composite.score = 0

\* C22: weights with a non-zero sum are resolved to weights that sum to 1 in
\* the supplied proportions; weights with sum zero are passed through
\* unchanged, and the composite score is 0 when all four are zero.
C22_WeightResolution ==
    syncResult # Nothing =>
        LET resolved == resolveConfig(input.config).weights
        IN  /\ WeightTotal # 0 =>
                /\ resolved.w.skills + resolved.w.experience
                   + resolved.w.keywords + resolved.w.education = resolved.den
                /\ \A c \in Components :
                       resolved.w[c] * WeightTotal = SuppliedWeights[c] * resolved.den
            /\ WeightTotal = 0 =>
                /\ resolved.w = SuppliedWeights /\ resolved.den = 100
                /\ (\A c \in Components : SuppliedWeights[c] = 0) => Composite.score = 0

\* analyzeResume returned for weights that cancel without all being zero
C22_Witness ==
    /\ syncResult # Nothing
    /\ WeightTotal = 0
    /\ \E c \in Components : SuppliedWeights[c] # 0
    /\ syncResult[1].score > 0

(***************************************************************************)
(* Properties of the adaptation of a validated payload (Spec)              *)
(***************************************************************************)
\* analyzeResumeAsync resolved after callLLM returned a payload that passed
\* the schema validation
ValidatedPayload ==
    /\ result # Nothing
    /\ Attempted
    /\ BudgetPassed
    /\ ResolvedInTime
    /\ ParsedContent # Nothing
    /\ validateJsonSchema(ParsedContent[1], suggestionEnhancementSchema)

\* the entries of the payload
PayloadEntries == Get(ParsedContent[1], "suggestions").elems

\* the suggestions of the result are the enhanced values of the entries
\* kept, in their order; if there is none, they are the deterministic
\* suggestions and a warning says so
SubstitutionFollows(kept) ==
    LET expected == [ k \in 1..Len(kept) |-> Get(kept[k], "enhanced") ]
    IN  IF expected # <<>>
        THEN result[1].suggestions = expected
        ELSE /\ result[1].suggestions = Deterministic.suggestions
             /\ <<"LLM returned no actionable enhanced suggestions", "">>
                    \in Range(result[1].warnings)

\* C23 as stated: from a validated payload the substituted list is the
\* enhanced text of exactly the entries, in payload order, whose actionable
\* flag is not false and whose enhanced text is non-empty; if none qualifies
\* the deterministic suggestions are kept and a warning is added.
C23_AdaptationAsStated ==
    ValidatedPayload =>
        SubstitutionFollows(SelectSeq(PayloadEntries, LAMBDA item :
            /\ Get(item, "actionable") # Bool(FALSE)
            /\ Truthy(Get(item, "enhanced"))))

\* C23: from a validated payload the substituted list is the enhanced value
\* of exactly the entries, in payload order, whose actionable flag is not
\* false and whose original and enhanced values are both non-empty; if none
\* qualifies the deterministic suggestions are kept and a warning is added.
C23_Adaptation ==
    ValidatedPayload =>
        SubstitutionFollows(SelectSeq(PayloadEntries, LAMBDA item :
            /\ Get(item, "actionable") # Bool(FALSE)
            /\ Truthy(Get(item, "original"))
            /\ Truthy(Get(item, "enhanced"))))

\* a validated payload of which some entries are kept and others dropped for
\* each of the reasons
C23_Witness ==
    /\ ValidatedPayload
    /\ Len(result[1].suggestions) = 2
    /\ \E i, j, k \in 1..Len(PayloadEntries) :
           /\ Get(PayloadEntries[i], "actionable") = Bool(FALSE)
           /\ ~Truthy(Get(PayloadEntries[j], "enhanced"))
           /\ ~Truthy(Get(PayloadEntries[k], "original"))

(***************************************************************************)
(* Properties of the resume parser (SpecParser)                            *)
(***************************************************************************)
\* C24: a header line opens a section and closes the previous one; the
\* content of each section is exactly the lines between its header and the
\* next header, so that lines before the first header belong to no section.
C24_SectionContents ==
    parsedResume # Nothing =>
        LET sections == parsedResume[1].sections
            headers == { i \in 1..Len(resumeText) : detectSection(resumeText[i]) # Nothing }
        IN  /\ DOMAIN sections = { detectSection(resumeText[i])[1] : i \in headers }
            /\ \A s \in DOMAIN sections :
                   LET own == { i \in headers : detectSection(resumeText[i]) = Some(s) }
                       h == CHOOSE i \in own : \A j \in own : j <= i
                       later == { j \in headers : j > h } \cup { Len(resumeText) + 1 }
                       next == CHOOSE j \in later : \A k \in later : j <= k
                   IN  sections[s] = SubSeq(resumeText, h + 1, next - 1)

\* C25: every line of the experience section that begins with a role
\* keyword, with or without a date range on the same line, starts a new
\* entry carrying its title and adds the lowercased title to the job titles.
C25_TitleLinesStartEntries ==
    (parsedResume # Nothing /\ "experience" \in DOMAIN parsedResume[1].sections) =>
        LET content == parsedResume[1].sections["experience"]
            titled == { i \in 1..Len(content) : titleMatch(content[i]) # Nothing }
            entries == parsedResume[1].experience
        IN  /\ parsedResume[1].jobTitles = { titleMatch(content[i])[1] : i \in titled }
            /\ Cardinality({ k \in 1..Len(entries) : entries[k].title # Nothing })
                 = Cardinality(titled)

(***************************************************************************)
(* Further properties of the LLMManager alone (SpecMgr)                    *)
(***************************************************************************)
\* C26: once an invocation of callLLM has returned a failure, the warnings of
\* its LLMManager are not empty.
C26_FailureLeavesWarning ==
    \A i \in Slots :
        (calls[i].pc = "returned" /\ calls[i].ret.fallback) => mgr.warnings # <<>>

(***************************************************************************)
(* Further properties of the enhancement (Spec)                            *)
(***************************************************************************)
\* C27: every element of the suggestions of a result is a non-empty string,
\* also after an enhancement whose payload passed the schema validation.
C27_SuggestionsAreTexts ==
    \A r \in Returned :
        \A k \in 1..Len(r.suggestions) :
            r.suggestions[k].t = "string" /\ r.suggestions[k] # Str("")

\* C28: max_tokens of every request that callLLM sends to the client is at
\* most limits.maxTokensPerCall, with or without requestedTokens.
C28_MaxTokensWithinLimit ==
    \A k \in 1..Len(sent) : sent[k] <= mgr.limits.maxTokensPerCall

(***************************************************************************)
(* Properties of overlapping invocations (SpecOverlap)                     *)
(***************************************************************************)
\* C29: when invocations of callLLM on one manager overlap, each awaiting its
\* client, the number of calls the budget has recorded (callsUsed) never
\* exceeds maxCalls.
C29_OverlapSafe == mgr.budget.callCount <= mgr.limits.maxCalls

(***************************************************************************)
(* Properties of the process-level listener (FairSpec)                     *)
(***************************************************************************)
\* C30: every invocation of callLLM eventually removes the unhandledRejection
\* listener it registered, on every path, once the call has ended and its
\* timers have fired.
C30_ListenerEventuallyRemoved ==
    \A i \in Slots : (calls[i].listener # "off") ~> (calls[i].listener = "off")

====
